---- MODULE Spec2Model ----
(***************************************************************************)
(* A model of the documentation utility of this repository:                *)
(*   - the Target Synchronizer   (.ai-docs/scripts/discover_targets.py)    *)
(*   - the Documentation Generator (.ai-docs/scripts/generate_docs.py)     *)
(*   - the response cleaner      (clean_markdown_response, both scripts)   *)
(*   - the Extension Scanner     (scan_repository_extensions), called alone *)
(* Strings are sequences of one-character strings, so that suffix tests,   *)
(* substring tests, replacements and slices are computed, not assumed.     *)
(***************************************************************************)
EXTENDS Integers, Sequences, FiniteSets, TLC

VARIABLES
    \* ---- disk state seen by the Synchronizer
    cfgFile,                \* .ai-docs/config.yaml: Missing, Corrupt, Empty or a document
    tplDir,                 \* the templates directory: NoDir or [name -> kind]
    repo,                   \* the repository tree: a set of files [dirs, name]
    \* ---- one Synchronizer run (locals of discover_targets.main)
    spc,                    \* position of main: "start", "update" (the loop), "done"
    config,                 \* the loaded configuration (in memory)
    existing_target_names,
    available_templates,
    found_extensions,       \* extensions the update loop has still to visit
    changes_made,
    \* ---- history of the Synchronizer runs
    run,                    \* number of the current run, from 1
    appended,               \* targets appended by the current run, in order
    warned,                 \* extensions the current run warned about (missing template)
    visited,                \* extensions the update loop of the current run has visited
    wrote,                  \* save_yaml in the current run: "no" (not called), "ok", "failed"
    cfgAtStart,             \* cfgFile when the current run started
    loadedTargets,          \* config['targets'] as the current run loaded it
    prevRun,                \* how the previous run ended: "none", "clean", "savefailed"
    \* ---- one Generator run (generate_docs.main)
    gpc,                    \* "start", "provider", "mkdir", "files" (the loops), "exit"
    dry_run,                \* args.dry_run
    gcfgExists,             \* os.path.exists(CONFIG_PATH)
    provider,               \* config["provider"], or Absent
    api_key,                \* what get_llm_provider read from the environment
    llm,                    \* the provider object: <<>> (None), or the vendor it is bound to
    exitStatus,             \* the process's exit status once gpc = "exit"
    ignore_patterns,
    gtargets,               \* config["targets"]
    ti,                     \* index of the current target
    nfiles,                 \* matched paths the run has visited so far
    outDirExists,
    outDir,                 \* files this run wrote: name -> [category, source, doc]
    processed_files,
    skipped_files,
    filesRead,              \* source paths whose content has been read
    providerCalls,          \* source paths for which llm.generate has been called
    madeDir,                \* this run created the output directory
    lastStep,               \* the last iteration of the file loop: path, outcome, log level
    \* ---- one call of clean_markdown_response
    cpc,                    \* "call" or "done"
    text,                   \* the argument
    cleaned,                \* the result
    \* ---- one call of scan_repository_extensions (the tree it walks is repo)
    scpc,                   \* "call" or "done"
    arg_known_extensions,       \* the candidate extensions, in the order given
    arg_ignore_dirs,            \* the ignore_dirs argument: not given (None), or a set of names
    scanned                 \* the result

syncVars == <<cfgFile, tplDir, repo, spc, config, existing_target_names,
              available_templates, found_extensions, changes_made, run, appended,
              warned, visited, wrote, cfgAtStart, loadedTargets, prevRun>>
genVars == <<gpc, dry_run, gcfgExists, provider, api_key, llm, exitStatus,
             ignore_patterns, gtargets, ti, nfiles, outDirExists, outDir,
             processed_files, skipped_files, filesRead, providerCalls, madeDir,
             lastStep>>
cleanVars == <<cpc, text, cleaned>>
scanVars == <<scpc, arg_known_extensions, arg_ignore_dirs, scanned>>
vars == <<syncVars, genVars, cleanVars, scanVars>>

-----------------------------------------------------------------------------
(* Bounds of the model *)

MaxInitTargets == 2     \* targets of the configuration a first run loads
MaxRuns == 2            \* consecutive Synchronizer runs
MaxVisits == 3          \* matched paths one Generator run visits, over all its targets
MaxLen == 7             \* tokens of a response text
MaxExts == 2            \* candidate extensions of one call of the scanner

-----------------------------------------------------------------------------
(* Strings *)

None == <<"<None>">>          \* Python's None
Absent == <<"<absent>">>      \* a key that the mapping does not hold

StartsWith(s, p) == Len(p) <= Len(s) /\ SubSeq(s, 1, Len(p)) = p

EndsWith(s, p) == Len(p) <= Len(s) /\ SubSeq(s, Len(s) - Len(p) + 1, Len(s)) = p

\* pattern in s
Contains(s, p) == \E i \in 0..(Len(s) - Len(p)) : SubSeq(s, i + 1, i + Len(p)) = p

LowerChar(c) ==
    CASE c = "A" -> "a"
      [] c = "B" -> "b"
      [] c = "G" -> "g"
      [] c = "T" -> "t"
      [] OTHER -> c

\* str.lower()
Lower(s) == [i \in 1..Len(s) |-> LowerChar(s[i])]

\* bool(v) of a string or None
Truthy(v) == v # None /\ v # <<>>

RECURSIVE SeqToSet(_)
SeqToSet(s) == IF s = <<>> THEN {} ELSE {Head(s)} \cup SeqToSet(Tail(s))

SeqsUpTo(S, n) == UNION {[1..k -> S] : k \in 0..n}

-----------------------------------------------------------------------------
(* The Synchronizer's data *)

DEFAULT_IGNORE_DIRS ==
    {".git", ".ai-docs", "node_modules", "__pycache__", ".ipynb_checkpoints", "venv", ".venv"}

\* Extensions that auto-discovery rules are written for.
ExtUniverse == { <<".", "g">>, <<".", "t", ".", "g">> }

\* Files a repository tree may hold: the directories above the file, and its name.
RepoFiles ==
    { [dirs |-> <<>>, name |-> <<"a", ".", "g">>],
      [dirs |-> <<"src">>, name |-> <<"B", ".", "T", ".", "G">>],
      [dirs |-> <<"src", ".git">>, name |-> <<"a", ".", "t", ".", "g">>] }

TemplateNames == { <<"t", ".", "m", "d">>, <<"u", ".", "t", "x", "t">> }

\* Target names: the empty string, and an ordinary name.
InitNames == { <<>>, <<"A">> }

\* A rule's target_name: a name, or no such key.
RuleNames == InitNames \cup {Absent}

Rules == [template : TemplateNames, category : {<<"C">>}, target_name : RuleNames]

\* A target written by hand into the configuration.
ManualTarget(n) ==
    [name |-> n, pattern |-> <<"*", ".", "x">>, template |-> <<"t", ".", "m", "d">>,
     category |-> <<"C">>]

NoRules == [e \in {} |-> {}]

\* What load_yaml returns for a file that is missing, unreadable or empty: {}.
EmptyDict == [kind |-> "empty", targets_none |-> TRUE, targets |-> <<>>,
              auto_discovery |-> NoRules]

\* The configuration file: missing, not parseable, empty, or a document. A document's
\* 'targets' key may be None (targets_none); 'auto_discovery' maps extensions to rules.
CfgFiles ==
    { [EmptyDict EXCEPT !.kind = k] : k \in {"missing", "corrupt", "empty"} }
    \cup
    { [kind |-> "doc", targets_none |-> tn, targets |-> ts, auto_discovery |-> r] :
        tn \in {FALSE}, ts \in {[i \in 1..Len(ns) |-> ManualTarget(ns[i])] :
                                   ns \in SeqsUpTo(InitNames, MaxInitTargets)},
        r \in UNION {[S -> Rules] : S \in SUBSET ExtUniverse} }
    \cup
    { [kind |-> "doc", targets_none |-> TRUE, targets |-> <<>>, auto_discovery |-> r] :
        r \in UNION {[S -> Rules] : S \in SUBSET ExtUniverse} }

\* The templates directory: whether it exists, and what each name is in it.
TplDirs ==
    { [exists |-> FALSE, kind |-> [n \in TemplateNames |-> "absent"]] }
    \cup
    { [exists |-> TRUE, kind |-> k] : k \in [TemplateNames -> {"absent", "file", "dir"}] }

-----------------------------------------------------------------------------
(* The Synchronizer's functions *)

\* load_yaml: {} when the file is missing, cannot be parsed, or is empty.
load_yaml(file) == IF file.kind = "doc" THEN file ELSE EmptyDict

\* Path.glob("*.md") yields every entry of the directory whose name ends in .md,
\* whether a file or a directory.
GlobMd(dir) ==
    {n \in TemplateNames : dir.kind[n] # "absent" /\ EndsWith(n, <<".", "m", "d">>)}

get_available_templates(dir) == IF ~dir.exists THEN {} ELSE GlobMd(dir)

\* The files os.walk reaches: dirs[:] drops the ignored directories before descent.
Walked(tree, ignore_dirs) ==
    {f \in tree : \A i \in 1..Len(f.dirs) : f.dirs[i] \notin ignore_dirs}

FileMatches(file_name, ext) == EndsWith(Lower(file_name), ext)

scan_repository_extensions(tree, known_extensions, ignore_dirs) ==
    {known_extensions[i] : i \in
        {j \in 1..Len(known_extensions) :
            \E f \in Walked(tree, ignore_dirs) : FileMatches(f.name, known_extensions[j])}}

\* Candidate extensions a caller may pass: lower case, upper case, and one no file has.
CandidateExts == ExtUniverse \cup { <<".", "G">>, <<".", "x">> }

\* The ignore_dirs argument: not given, or a set of directory names.
IgnoreArgs ==
    { [given |-> FALSE, dirs |-> {}] }
    \cup { [given |-> TRUE, dirs |-> d] : d \in { {}, {"src"} } }

\* if ignore_dirs is None: ignore_dirs = DEFAULT_IGNORE_DIRS
EffectiveIgnoreDirs(arg) == IF ~arg.given THEN DEFAULT_IGNORE_DIRS ELSE arg.dirs

\* sorted(keys, key=len, reverse=True)
RECURSIVE SortedByLenDesc(_)
SortedByLenDesc(S) ==
    IF S = {} THEN <<>>
    ELSE LET e == CHOOSE x \in S : \A y \in S : Len(y) <= Len(x)
         IN <<e>> \o SortedByLenDesc(S \ {e})

\* existing_target_names: the names of the targets, those that are truthy.
ExistingNames(targets) ==
    {targets[i].name : i \in {j \in 1..Len(targets) : Truthy(targets[j].name)}}

\* rule.get('target_name', f"Files ({ext})")
DefaultName(ext) == <<"F", "i", "l", "e", "s", " ", "(">> \o ext \o <<")">>

RuleTargetName(rule, ext) ==
    IF rule.target_name = Absent THEN DefaultName(ext) ELSE rule.target_name

NewTarget(rule, ext) ==
    [name |-> RuleTargetName(rule, ext), pattern |-> <<"*", "*", "/", "*">> \o ext,
     template |-> rule.template, category |-> rule.category]

TemplateAvailable(template_file, templates) == template_file \in templates

AlreadyConfigured(target_name, names) == target_name \in names

ShouldSaveAlways(changes) == TRUE

\* if changes_made: save
ShouldSave(changes) == changes

-----------------------------------------------------------------------------
(* The Synchronizer: discover_targets.main, one action per step *)

\* Lines 85-115: load the configuration, return early without one or without rules,
\* list the templates and scan the repository.
SyncLoad ==
    /\ spc = "start"
    /\ LET c == load_yaml(cfgFile)
           c2 == [c EXCEPT !.targets_none = FALSE]
           rules == c2.auto_discovery
       IN IF c.kind # "doc"
          THEN /\ spc' = "done"
               /\ UNCHANGED <<config, existing_target_names, available_templates,
                              found_extensions, loadedTargets>>
          ELSE /\ config' = c2
               /\ loadedTargets' = c2.targets
               /\ existing_target_names' = ExistingNames(c2.targets)
               /\ IF DOMAIN rules = {}
                  THEN /\ spc' = "done"
                       /\ UNCHANGED <<available_templates, found_extensions>>
                  ELSE /\ available_templates' = get_available_templates(tplDir)
                       /\ found_extensions' =
                            scan_repository_extensions(
                                repo, SortedByLenDesc(DOMAIN rules), DEFAULT_IGNORE_DIRS)
                       /\ spc' = "update"
    /\ UNCHANGED <<cfgFile, tplDir, repo, changes_made, run, appended, warned, visited,
                   wrote, cfgAtStart, prevRun>>
    /\ UNCHANGED <<genVars, cleanVars, scanVars>>

\* Lines 119-148: one iteration of the update loop, for any extension still to visit
\* (a set is iterated in no particular order).
SyncUpdate ==
    /\ spc = "update"
    /\ \E ext \in found_extensions :
        LET rules == config.auto_discovery
            rule == rules[ext]
            target_name == RuleTargetName(rule, ext)
        IN /\ found_extensions' = found_extensions \ {ext}
           /\ visited' = visited \cup {ext}
           /\ IF ext \notin DOMAIN rules
              THEN UNCHANGED <<config, existing_target_names, changes_made, appended, warned>>
              ELSE IF ~TemplateAvailable(rule.template, available_templates)
              THEN /\ warned' = warned \cup {ext}
                   /\ UNCHANGED <<config, existing_target_names, changes_made, appended>>
              ELSE IF AlreadyConfigured(target_name, existing_target_names)
              THEN UNCHANGED <<config, existing_target_names, changes_made, appended, warned>>
              ELSE /\ config' = [config EXCEPT
                                   !.targets = Append(@, NewTarget(rule, ext))]
                   /\ existing_target_names' = existing_target_names \cup {target_name}
                   /\ changes_made' = TRUE
                   /\ appended' = Append(appended, NewTarget(rule, ext))
                   /\ UNCHANGED warned
    /\ UNCHANGED <<cfgFile, tplDir, repo, spc, available_templates, run, wrote,
                   cfgAtStart, loadedTargets, prevRun>>
    /\ UNCHANGED <<genVars, cleanVars, scanVars>>

\* Lines 150-157: after the loop, save if anything changed. save_yaml opens the file
\* for writing and dumps; it may fail before the file is touched, or after it has
\* been truncated.
SyncSave ==
    /\ spc = "update"
    /\ found_extensions = {}
    /\ spc' = "done"
    /\ IF ShouldSave(changes_made)
       THEN \/ /\ cfgFile' = config
               /\ wrote' = "ok"
            \/ /\ cfgFile' \in {cfgFile, [EmptyDict EXCEPT !.kind = "corrupt"]}
               /\ wrote' = "failed"
       ELSE UNCHANGED <<cfgFile, wrote>>
    /\ UNCHANGED <<tplDir, repo, config, existing_target_names, available_templates,
                   found_extensions, changes_made, run, appended, warned, visited,
                   cfgAtStart, loadedTargets, prevRun>>
    /\ UNCHANGED <<genVars, cleanVars, scanVars>>

\* The script is started again, with the repository and the templates as they are.
SyncRerun ==
    /\ spc = "done"
    /\ run < MaxRuns
    /\ run' = run + 1
    /\ spc' = "start"
    /\ prevRun' = IF wrote = "failed" THEN "savefailed" ELSE "clean"
    /\ cfgAtStart' = cfgFile
    /\ config' = EmptyDict
    /\ existing_target_names' = {}
    /\ available_templates' = {}
    /\ found_extensions' = {}
    /\ changes_made' = FALSE
    /\ appended' = <<>>
    /\ warned' = {}
    /\ visited' = {}
    /\ wrote' = "no"
    /\ loadedTargets' = <<>>
    /\ UNCHANGED <<cfgFile, tplDir, repo>>
    /\ UNCHANGED <<genVars, cleanVars, scanVars>>

-----------------------------------------------------------------------------
(* The response cleaner: clean_markdown_response *)

\* A text is a sequence of tokens: one character each, but for the word "markdown".
Tick == "<backtick>"

CharLen(tok) == IF tok = "markdown" THEN 8 ELSE 1

IsSpace(tok) == tok \in {" ", "\n", "\t"}

RECURSIVE LStrip(_)
LStrip(s) == IF s # <<>> /\ IsSpace(Head(s)) THEN LStrip(Tail(s)) ELSE s

RECURSIVE RStrip(_)
RStrip(s) ==
    IF s # <<>> /\ IsSpace(s[Len(s)]) THEN RStrip(SubSeq(s, 1, Len(s) - 1)) ELSE s

\* str.strip()
Strip(s) == RStrip(LStrip(s))

\* s[n:], n counted in characters
RECURSIVE DropChars(_, _)
DropChars(s, n) ==
    IF n <= 0 \/ s = <<>> THEN s ELSE DropChars(Tail(s), n - CharLen(Head(s)))

\* s[:-n], n counted in characters
RECURSIVE DropLastChars(_, _)
DropLastChars(s, n) ==
    IF n <= 0 \/ s = <<>> THEN s
    ELSE DropLastChars(SubSeq(s, 1, Len(s) - 1), n - CharLen(s[Len(s)]))

Fence == <<Tick, Tick, Tick>>
FenceMarkdown == <<Tick, Tick, Tick, "markdown">>

clean_markdown_response(t) ==
    IF ~Truthy(t) THEN <<>>
    ELSE LET t1 == Strip(t)
             t2 == IF StartsWith(t1, FenceMarkdown) THEN DropChars(t1, 11)
                   ELSE IF StartsWith(t1, Fence) THEN DropChars(t1, 3)
                   ELSE t1
             t3 == IF EndsWith(t2, Fence) THEN DropLastChars(t2, 3) ELSE t2
         IN Strip(t3)

TextTokens == {Tick, "\n", "x", "markdown"}

\* the fenced example: a markdown fence, newline, HELLO (one token), newline, a fence
HelloExample == <<Tick, Tick, Tick, "markdown", "\n", "x", "\n", Tick, Tick, Tick>>

Texts == SeqsUpTo(TextTokens, MaxLen) \cup {None, HelloExample}

-----------------------------------------------------------------------------
(* The Generator's data *)

Vendors == { <<"g", "o", "o", "g", "l", "e">>, <<"o", "p", "e", "n", "a", "i">>,
             <<"a", "n", "t", "h", "r", "o", "p", "i", "c">> }

\* config["provider"]: a vendor, a vendor in mixed case, an unknown name, or no key.
ProviderNames ==
    { <<"g", "o", "o", "g", "l", "e">>, <<"o", "p", "e", "n", "a", "i">>,
      <<"O", "p", "e", "n", "A", "I">>, <<"a", "z", "u", "r", "e">>, Absent }

\* Values of an API-key environment variable: unset, empty, set.
KeyValues == { None, <<>>, <<"k">> }

\* Paths a glob may yield.
SourcePaths ==
    { <<"a", "/", "b", ".", "p">>, <<"a", "_", "b", ".", "p">>, <<"c", ".", "p">> }

IgnoreChoices == { <<>>, << <<"z">>, <<"a", "/">> >> }

GenTarget(i) == [name |-> <<"T">>, pattern |-> <<"*", "*", "/", "*", ".", "p">>,
                 template |-> <<"t", ".", "m", "d">>,
                 category |-> IF i = 1 THEN <<"C">> ELSE <<"D">>]

TargetLists == { <<>>, <<GenTarget(1)>>, <<GenTarget(1), GenTarget(2)>> }

\* Responses of the provider.
Responses == { None, <<"x">>, Fence, <<Tick, Tick, Tick, "markdown", "\n", "x", "\n", Tick, Tick, Tick>> }

NoStep == [path |-> <<>>, outcome |-> "none", log |-> "none"]

-----------------------------------------------------------------------------
(* The Generator's functions *)

LowerAscii(c) ==
    CASE c = "O" -> "o"
      [] c = "A" -> "a"
      [] c = "I" -> "i"
      [] OTHER -> c

\* config.get("provider", "google").lower()
ProviderName(p) ==
    LET v == IF p = Absent THEN <<"g", "o", "o", "g", "l", "e">> ELSE p
    IN [i \in 1..Len(v) |-> LowerAscii(v[i])]

Supported(provider_name) == provider_name \in Vendors

KeyNeverMissing(key) == FALSE

\* if not api_key
KeyMissing(key) == ~Truthy(key)

NeedsOutputDirAlways(dry, exists) == ~exists

\* if not args.dry_run and not os.path.exists(output_dir)
NeedsOutputDir(dry, exists) == ~dry /\ ~exists

should_skip_first_only(file_path, patterns) ==
    patterns # <<>> /\ Contains(file_path, Head(patterns))

\* should_skip_file: the first pattern found in the path decides
RECURSIVE should_skip_file(_, _)
should_skip_file(file_path, patterns) ==
    IF patterns = <<>> THEN FALSE
    ELSE IF Contains(file_path, Head(patterns)) THEN TRUE
    ELSE should_skip_file(file_path, Tail(patterns))

ReplaceChar(s, old, new) == [i \in 1..Len(s) |-> IF s[i] = old THEN new ELSE s[i]]

\* file_path.replace("\\", "_").replace("/", "_").replace(".", "_") + ".md"
SafeName(file_path) ==
    ReplaceChar(ReplaceChar(ReplaceChar(file_path, "\\", "_"), "/", "_"), ".", "_")
        \o <<".", "m", "d">>

\* open(output_path, "w") and the three writes
WriteFile(dir, name, rec) ==
    [n \in DOMAIN dir \cup {name} |-> IF n = name THEN rec ELSE dir[n]]

HandlerMissesProviderErrors(event) == event # "raise"

\* except (IOError, OSError) / except Exception: whatever was raised for a file, the
\* handler logs it and the loop goes on with the next file.
HandlerContinues(event) == TRUE

-----------------------------------------------------------------------------
(* States in which a program has not been started *)

SyncIdle ==
    /\ spc = "start"
    /\ config = EmptyDict
    /\ existing_target_names = {}
    /\ available_templates = {}
    /\ found_extensions = {}
    /\ changes_made = FALSE
    /\ run = 1
    /\ appended = <<>>
    /\ warned = {}
    /\ visited = {}
    /\ wrote = "no"
    /\ loadedTargets = <<>>
    /\ prevRun = "none"

GenIdle ==
    /\ gpc = "start"
    /\ dry_run = FALSE
    /\ gcfgExists = FALSE
    /\ provider = Absent
    /\ api_key = Absent
    /\ llm = <<>>
    /\ exitStatus = -1
    /\ ignore_patterns = <<>>
    /\ gtargets = <<>>
    /\ ti = 0
    /\ nfiles = 0
    /\ outDirExists = FALSE
    /\ outDir = <<>>
    /\ processed_files = <<>>
    /\ skipped_files = <<>>
    /\ filesRead = {}
    /\ providerCalls = {}
    /\ madeDir = FALSE
    /\ lastStep = NoStep

CleanIdle ==
    /\ cpc = "call"
    /\ text = <<>>
    /\ cleaned = <<>>

ScanIdle ==
    /\ scpc = "call"
    /\ arg_known_extensions = <<>>
    /\ arg_ignore_dirs = [given |-> FALSE, dirs |-> {}]
    /\ scanned = {}


-----------------------------------------------------------------------------
(* The cleaner, called once *)

CleanCall ==
    /\ cpc = "call"
    /\ cleaned' = clean_markdown_response(text)
    /\ cpc' = "done"
    /\ UNCHANGED text
    /\ UNCHANGED <<syncVars, genVars, scanVars>>

-----------------------------------------------------------------------------
(* The scanner, called once *)

ScanCall ==
    /\ scpc = "call"
    /\ scanned' = scan_repository_extensions(
                      repo, arg_known_extensions, EffectiveIgnoreDirs(arg_ignore_dirs))
    /\ scpc' = "done"
    /\ UNCHANGED <<arg_known_extensions, arg_ignore_dirs>>
    /\ UNCHANGED <<syncVars, genVars, cleanVars>>

-----------------------------------------------------------------------------
(* The Generator: generate_docs.main, one action per step *)

\* Line 177, load_config: without a configuration file the process exits with 1.
GenLoadConfig ==
    /\ gpc = "start"
    /\ IF ~gcfgExists
       THEN gpc' = "exit" /\ exitStatus' = 1
       ELSE gpc' = "provider" /\ UNCHANGED exitStatus
    /\ UNCHANGED <<dry_run, gcfgExists, provider, api_key, llm, ignore_patterns, gtargets,
                   ti, nfiles, outDirExists, outDir, processed_files, skipped_files,
                   filesRead, providerCalls, madeDir, lastStep>>
    /\ UNCHANGED <<syncVars, cleanVars, scanVars>>

\* Lines 179-182 and get_llm_provider: skipped in a dry run; otherwise the provider
\* name is lower-cased, its key is read from the environment and the vendor's
\* library is imported; each of the three can end the process with 1.
GenProvider ==
    /\ gpc = "provider"
    /\ IF dry_run
       THEN /\ gpc' = "mkdir"
            /\ UNCHANGED <<api_key, llm, exitStatus>>
       ELSE LET provider_name == ProviderName(provider)
            IN IF ~Supported(provider_name)
               THEN /\ gpc' = "exit"
                    /\ exitStatus' = 1
                    /\ UNCHANGED <<api_key, llm>>
               ELSE \E key \in KeyValues, importable \in BOOLEAN :
                      /\ api_key' = key
                      /\ IF KeyMissing(key) \/ ~importable
                         THEN /\ gpc' = "exit"
                              /\ exitStatus' = 1
                              /\ UNCHANGED llm
                         ELSE /\ gpc' = "mkdir"
                              /\ llm' = provider_name
                              /\ UNCHANGED exitStatus
    /\ UNCHANGED <<dry_run, gcfgExists, provider, ignore_patterns, gtargets, ti, nfiles,
                   outDirExists, outDir, processed_files, skipped_files, filesRead,
                   providerCalls, madeDir, lastStep>>
    /\ UNCHANGED <<syncVars, cleanVars, scanVars>>

\* Lines 184-207: create the output directory if this is no dry run and it is not
\* there; return (status 0) if no target is configured.
GenMakeDir ==
    /\ gpc = "mkdir"
    /\ IF NeedsOutputDir(dry_run, outDirExists)
       THEN outDirExists' = TRUE /\ madeDir' = TRUE
       ELSE UNCHANGED <<outDirExists, madeDir>>
    /\ IF gtargets = <<>>
       THEN gpc' = "exit" /\ exitStatus' = 0 /\ UNCHANGED ti
       ELSE gpc' = "files" /\ ti' = 1 /\ UNCHANGED exitStatus
    /\ UNCHANGED <<dry_run, gcfgExists, provider, api_key, llm, ignore_patterns, gtargets,
                   nfiles, outDir, processed_files, skipped_files, filesRead,
                   providerCalls, lastStep>>
    /\ UNCHANGED <<syncVars, cleanVars, scanVars>>

\* Lines 220-273: one iteration of the file loop of the current target, for the next
\* path of its glob result. The path, whether it is a directory, whether it can be
\* read and what the provider does are the environment's choice.
GenFile ==
    /\ gpc = "files"
    /\ nfiles < MaxVisits
    /\ \E file_path \in SourcePaths, isdir \in BOOLEAN,
          event \in {"readfail", "raise", "response"}, response_text \in Responses :
        LET category == gtargets[ti].category
            doc_content == clean_markdown_response(response_text)
            step(o, l) == [path |-> file_path, outcome |-> o, log |-> l]
        IN /\ nfiles' = nfiles + 1
           /\ IF isdir
              THEN /\ lastStep' = step("dir", "none")
                   /\ UNCHANGED <<gpc, exitStatus, outDir, processed_files, skipped_files,
                                  filesRead, providerCalls>>
              ELSE IF should_skip_file(file_path, ignore_patterns)
              THEN /\ skipped_files' = Append(skipped_files, file_path)
                   /\ lastStep' = step("ignored", "debug")
                   /\ UNCHANGED <<gpc, exitStatus, outDir, processed_files, filesRead,
                                  providerCalls>>
              ELSE IF dry_run
              THEN /\ processed_files' = Append(processed_files, file_path)
                   /\ lastStep' = step("would", "info")
                   /\ UNCHANGED <<gpc, exitStatus, outDir, skipped_files, filesRead,
                                  providerCalls>>
              ELSE IF event = "readfail"
              THEN /\ lastStep' = step("readfail", "error")
                   /\ IF HandlerContinues(event)
                      THEN UNCHANGED <<gpc, exitStatus>>
                      ELSE gpc' = "exit" /\ exitStatus' = 1
                   /\ UNCHANGED <<outDir, processed_files, skipped_files, filesRead,
                                  providerCalls>>
              ELSE IF event = "raise"
              THEN /\ filesRead' = filesRead \cup {file_path}
                   /\ providerCalls' = providerCalls \cup {file_path}
                   /\ lastStep' = step("raise", "error")
                   /\ IF HandlerContinues(event)
                      THEN UNCHANGED <<gpc, exitStatus>>
                      ELSE gpc' = "exit" /\ exitStatus' = 1
                   /\ UNCHANGED <<outDir, processed_files, skipped_files>>
              ELSE /\ filesRead' = filesRead \cup {file_path}
                   /\ providerCalls' = providerCalls \cup {file_path}
                   /\ IF doc_content # <<>>
                      THEN /\ outDir' = WriteFile(outDir, SafeName(file_path),
                                           [category |-> category, source |-> file_path,
                                            doc |-> doc_content])
                           /\ processed_files' = Append(processed_files, file_path)
                           /\ lastStep' = step("saved", "info")
                      ELSE /\ lastStep' = step("empty", "warning")
                           /\ UNCHANGED <<outDir, processed_files>>
                   /\ UNCHANGED <<gpc, exitStatus, skipped_files>>
    /\ UNCHANGED <<dry_run, gcfgExists, provider, api_key, llm, ignore_patterns, gtargets,
                   ti, outDirExists, madeDir>>
    /\ UNCHANGED <<syncVars, cleanVars, scanVars>>

\* The glob result of the current target is exhausted: go on with the next target,
\* or log the summary (lines 275-283) and return, status 0.
GenNextTarget ==
    /\ gpc = "files"
    /\ IF ti < Len(gtargets)
       THEN ti' = ti + 1 /\ UNCHANGED <<gpc, exitStatus>>
       ELSE gpc' = "exit" /\ exitStatus' = 0 /\ UNCHANGED ti
    /\ UNCHANGED <<dry_run, gcfgExists, provider, api_key, llm, ignore_patterns, gtargets,
                   nfiles, outDirExists, outDir, processed_files, skipped_files,
                   filesRead, providerCalls, madeDir, lastStep>>
    /\ UNCHANGED <<syncVars, cleanVars, scanVars>>

-----------------------------------------------------------------------------
(* Specifications *)

InitSync ==
    /\ cfgFile \in CfgFiles
    /\ tplDir \in TplDirs
    /\ repo \in SUBSET RepoFiles
    /\ cfgAtStart = cfgFile
    /\ SyncIdle
    /\ GenIdle
    /\ CleanIdle
    /\ ScanIdle

NextSync == SyncLoad \/ SyncUpdate \/ SyncSave \/ SyncRerun

SpecSync == InitSync /\ [][NextSync]_vars


\* A Generator run: the command line, the configuration file and the output
\* directory are as the run finds them; without a configuration file there is
\* nothing configured.
InitGen ==
    /\ dry_run \in BOOLEAN
    /\ gcfgExists \in BOOLEAN
    /\ provider \in (IF gcfgExists THEN ProviderNames ELSE {Absent})
    /\ ignore_patterns \in (IF gcfgExists THEN IgnoreChoices ELSE {<<>>})
    /\ gtargets \in (IF gcfgExists THEN TargetLists ELSE {<<>>})
    /\ outDirExists \in BOOLEAN
    /\ gpc = "start"
    /\ api_key = Absent
    /\ llm = <<>>
    /\ exitStatus = -1
    /\ ti = 0
    /\ nfiles = 0
    /\ outDir = <<>>
    /\ processed_files = <<>>
    /\ skipped_files = <<>>
    /\ filesRead = {}
    /\ providerCalls = {}
    /\ madeDir = FALSE
    /\ lastStep = NoStep
    /\ cfgFile = EmptyDict
    /\ tplDir = [exists |-> FALSE, kind |-> [n \in TemplateNames |-> "absent"]]
    /\ repo = {}
    /\ cfgAtStart = cfgFile
    /\ SyncIdle
    /\ CleanIdle
    /\ ScanIdle

NextGen == GenLoadConfig \/ GenProvider \/ GenMakeDir \/ GenFile \/ GenNextTarget

SpecGen == InitGen /\ [][NextGen]_vars

\* One call of clean_markdown_response, for any text.
InitClean ==
    /\ text \in Texts
    /\ cpc = "call"
    /\ cleaned = <<>>
    /\ cfgFile = EmptyDict
    /\ tplDir = [exists |-> FALSE, kind |-> [n \in TemplateNames |-> "absent"]]
    /\ repo = {}
    /\ cfgAtStart = cfgFile
    /\ SyncIdle
    /\ GenIdle
    /\ ScanIdle

NextClean == CleanCall

SpecClean == InitClean /\ [][NextClean]_vars

\* One call of scan_repository_extensions, for any tree, candidate list and
\* ignore_dirs argument.
InitScan ==
    /\ repo \in SUBSET RepoFiles
    /\ arg_known_extensions \in SeqsUpTo(CandidateExts, MaxExts)
    /\ arg_ignore_dirs \in IgnoreArgs
    /\ scpc = "call"
    /\ scanned = {}
    /\ cfgFile = EmptyDict
    /\ tplDir = [exists |-> FALSE, kind |-> [n \in TemplateNames |-> "absent"]]
    /\ cfgAtStart = cfgFile
    /\ SyncIdle
    /\ GenIdle
    /\ CleanIdle

NextScan == ScanCall

SpecScan == InitScan /\ [][NextScan]_vars

\* The programs, each run on its own.
Init == InitSync \/ InitGen \/ InitClean \/ InitScan

Next == NextSync \/ NextGen \/ NextClean \/ NextScan

Spec == Init /\ [][Next]_vars
-----------------------------------------------------------------------------
(* Properties of the Synchronizer *)

Names(targets) == [i \in 1..Len(targets) |-> targets[i].name]

Distinct(s) == \A i, j \in 1..Len(s) : i # j => s[i] # s[j]

\* The template is a file of the templates directory.
TemplateIsFile(n) == tplDir.exists /\ tplDir.kind[n] = "file"

AppendedFor(ext) == \E i \in 1..Len(appended) : appended[i].pattern = <<"*", "*", "/", "*">> \o ext

\* C1 (as claimed): a run that follows a run which ran to completion, saving
\* successfully if it saved, appends no target and leaves the configuration file
\* as it found it.
C1_SecondRunChangesNothing ==
    (run >= 2 /\ prevRun = "clean") => (appended = <<>> /\ cfgFile = cfgAtStart)

\* C4 (as claimed): every extension the update loop has visited whose rule names a
\* template that is not a file of the templates directory got a warning and no
\* target, and the loop goes on to visit every discovered extension.
C4_MissingTemplateSkipped ==
    /\ \A ext \in visited :
          ~TemplateIsFile(config.auto_discovery[ext].template)
             => (ext \in warned /\ ~AppendedFor(ext))
    /\ (spc = "done" /\ visited # {}) =>
          visited = scan_repository_extensions(
                        repo, SortedByLenDesc(DOMAIN config.auto_discovery),
                        DEFAULT_IGNORE_DIRS)

\* C8 (as claimed): if the loaded targets have pairwise distinct names, the targets
\* keep pairwise distinct names after every step of the update loop, and no target
\* is appended under the name of a loaded target.
C8_UniqueTargetNames ==
    (spc \in {"update", "done"} /\ config.kind = "doc" /\ Distinct(Names(loadedTargets)))
        => /\ Distinct(Names(config.targets))
           /\ \A i \in 1..Len(appended) :
                 \A j \in 1..Len(loadedTargets) : appended[i].name # loadedTargets[j].name

\* C10: the configuration file is written only by a run that appended a target, and
\* a run that has appended none leaves the file as it found it.
C10_PersistOnlyIfAppended ==
    /\ wrote # "no" => Len(appended) > 0
    /\ Len(appended) = 0 => cfgFile = cfgAtStart

\* A run that visited discovered extensions, skipped them all and ended without saving.
C10_Witness ==
    /\ spc = "done"
    /\ visited # {}
    /\ appended = <<>>
    /\ wrote = "no"
    /\ cfgFile.kind = "doc"

-----------------------------------------------------------------------------
(* Properties of the Generator *)

\* No source file read, no provider call, no output directory or file created.
NoWork == filesRead = {} /\ providerCalls = {} /\ ~madeDir /\ outDir = <<>>

Saved == SeqToSet(processed_files)

\* C2: in a dry run the provider is never constructed or called, and nothing is
\* created or written in the output directory.
C2_DryRunSafe ==
    dry_run => /\ llm = <<>>
               /\ api_key = Absent
               /\ providerCalls = {}
               /\ filesRead = {}
               /\ outDir = <<>>
               /\ ~madeDir

\* A dry run that reported a file and ended, the output directory still missing.
C2_Witness ==
    /\ dry_run
    /\ gpc = "exit"
    /\ exitStatus = 0
    /\ Len(processed_files) >= 1
    /\ ~outDirExists

\* The path contains one of the configured ignore patterns.
Ignored(path) == \E i \in 1..Len(ignore_patterns) : Contains(path, ignore_patterns[i])

\* C3: a path that contains an ignore pattern is never sent to the provider and no
\* output file is written for it, whatever the number of targets that match it.
C3_IgnoredNeverProcessed ==
    \A path \in SourcePaths :
        Ignored(path) => /\ path \notin providerCalls
                         /\ path \notin filesRead
                         /\ \A n \in DOMAIN outDir : outDir[n].source # path

\* A run that met an ignored path under its second target and saved another file.
C3_Witness ==
    /\ ~dry_run
    /\ ti = 2
    /\ lastStep.outcome = "ignored"
    /\ Ignored(lastStep.path)
    /\ Len(processed_files) >= 1

\* C5 (as claimed): in any run, a missing configuration file, a provider name that
\* is not google, openai or anthropic (compared in lower case), or a missing or
\* empty API key ends the process with status 1 before any work.
C5_FatalInAnyRun ==
    LET fatal == \/ ~gcfgExists
                 \/ ProviderName(provider) \notin Vendors
                 \/ api_key \in {None, <<>>}
    IN /\ fatal => NoWork
       /\ (fatal /\ gpc \notin {"start", "provider"}) => (gpc = "exit" /\ exitStatus = 1)

\* C5 (amended): a missing configuration file in any run, and, in a run without
\* --dry-run, a provider name that lower-cased (google when none is configured) is
\* not google, openai or anthropic, or a missing or empty API key, ends the process
\* with status 1 before any work.
C5_FatalBeforeWork ==
    LET fatal == \/ ~gcfgExists
                 \/ (~dry_run /\ ProviderName(provider) \notin Vendors)
                 \/ (~dry_run /\ api_key \in {None, <<>>})
    IN /\ fatal => NoWork
       /\ (fatal /\ gpc \notin {"start", "provider"}) => (gpc = "exit" /\ exitStatus = 1)

\* Provider openai (written OpenAI or openai), its key not set: exit 1, nothing done.
C5_Witness ==
    /\ ~dry_run
    /\ ProviderName(provider) = <<"o", "p", "e", "n", "a", "i">>
    /\ api_key = None
    /\ gpc = "exit"
    /\ exitStatus = 1
    /\ NoWork

FailureOutcomes == {"readfail", "raise", "empty"}

\* C6: an iteration that fails on its file (unreadable, provider exception, empty
\* cleaned response) logs the failure, writes no file, adds nothing to
\* processed_files and leaves the run in its loops; a run that entered the loops
\* ends with status 0.
C6_FailureIsolated ==
    /\ [][(~dry_run /\ gpc = "files" /\ nfiles' = nfiles + 1
             /\ lastStep'.outcome \in FailureOutcomes)
          => /\ lastStep'.log \in {"error", "warning"}
             /\ outDir' = outDir
             /\ processed_files' = processed_files
             /\ gpc' = "files"]_vars
    /\ []((gpc = "exit" /\ ti >= 1) => exitStatus = 0)

\* A file was saved after the provider had failed on another path.
C6_Witness ==
    /\ ~dry_run
    /\ lastStep.outcome = "saved"
    /\ \E path \in providerCalls : path \notin Saved /\ path # lastStep.path

\* C9 (as claimed): two distinct saved source paths have distinct output files, and
\* the output file of every saved path holds that path's document.
C9_OneOutputPerSource ==
    ~dry_run =>
        /\ \A p1, p2 \in Saved : p1 # p2 => SafeName(p1) # SafeName(p2)
        /\ \A p1 \in Saved : /\ SafeName(p1) \in DOMAIN outDir
                             /\ outDir[SafeName(p1)].source = p1

-----------------------------------------------------------------------------
(* Properties of the cleaner *)

\* The whole text is wrapped in one fence: it begins with a fence (plain or
\* markdown) and ends with a fence.
Wrapped(s) == StartsWith(s, Fence) /\ EndsWith(s, Fence)

\* The text between the opening marker and the closing fence (nothing is left to
\* close when the two fences share their characters).
Inner(s) ==
    LET opened == IF StartsWith(s, FenceMarkdown) THEN SubSeq(s, 5, Len(s))
                  ELSE SubSeq(s, 4, Len(s))
    IN IF EndsWith(opened, Fence) THEN SubSeq(opened, 1, Len(opened) - 3) ELSE opened

\* C7 (as claimed): fence markers are removed only from a text that is wrapped in
\* one fence, giving the stripped inner text; any other text comes back stripped
\* and otherwise unchanged; an empty or missing text gives the empty string.
C7_CleansOnlyWrapped ==
    cpc = "done" =>
        cleaned = IF ~Truthy(text) THEN <<>>
                  ELSE IF Wrapped(Strip(text)) THEN Strip(Inner(Strip(text)))
                  ELSE Strip(text)

-----------------------------------------------------------------------------
(* Properties of the scanner *)

\* The file is under no directory whose name is ignored.
NotUnderIgnored(f, names) == \A i \in 1..Len(f.dirs) : f.dirs[i] \notin names

\* e is a suffix of the name, letters compared without regard to case.
SuffixIgnoringCase(name, e) == EndsWith(Lower(name), Lower(e))

\* The candidates the claim expects for the tree.
ExpectedExtensions ==
    {e \in SeqToSet(arg_known_extensions) :
        \E f \in repo : /\ NotUnderIgnored(f, EffectiveIgnoreDirs(arg_ignore_dirs))
                        /\ SuffixIgnoringCase(f.name, e)}

\* C11 (as claimed): the scanner returns exactly the candidates that are a suffix,
\* compared case-insensitively, of the name of some file that is under no ignored
\* directory; every matching candidate is in the result.
C11_ScanFindsExactlyMatching ==
    scpc = "done" => scanned = ExpectedExtensions

====
